---- MODULE Spec2Model ----
(***************************************************************************)
(* Avogadro XYZ reader and writer (avogadro/io/xyzformat.cpp).             *)
(*                                                                         *)
(* A stream is a sequence of one-character strings; "\n" ends a line.      *)
(* Coordinates are fixed-point numbers counted in units of 10^-6, so that  *)
(* the 5-decimal output of the writer loses at most one decimal digit.     *)
(***************************************************************************)
EXTENDS Integers, Sequences, FiniteSets, TLC

(***************************************************************************)
(* Bounds of the explored inputs.                                          *)
(***************************************************************************)
MaxAtoms == 2
MaxFrames == 2
MaxBody == 1
\* the calls of OBProcess's request operations that are explored
MaxCalls == 3

(***************************************************************************)
(* Characters.                                                             *)
(***************************************************************************)
NL == "\n"
SP == " "
TAB == "\t"

Digits == {"0", "1", "2", "3", "4", "5", "6", "7", "8", "9"}

Letters ==
  {"A", "B", "C", "D", "E", "F", "G", "H", "I", "J", "K", "L", "M", "N", "O",
   "P", "Q", "R", "S", "T", "U", "V", "W", "X", "Y", "Z",
   "a", "b", "c", "d", "e", "f", "g", "h", "i", "j", "k", "l", "m", "n", "o",
   "p", "q", "r", "s", "t", "u", "v", "w", "x", "y", "z"}

\* std::isspace in the "C" locale
IsSpace(c) == c \in {" ", "\t", "\n", "\r"}

\* std::isalpha in the "C" locale
IsAlpha(c) == c \in Letters

DigitVal(c) ==
  CASE c = "0" -> 0 [] c = "1" -> 1 [] c = "2" -> 2 [] c = "3" -> 3
    [] c = "4" -> 4 [] c = "5" -> 5 [] c = "6" -> 6 [] c = "7" -> 7
    [] c = "8" -> 8 [] c = "9" -> 9

DigitChar(d) ==
  CASE d = 0 -> "0" [] d = 1 -> "1" [] d = 2 -> "2" [] d = 3 -> "3"
    [] d = 4 -> "4" [] d = 5 -> "5" [] d = 6 -> "6" [] d = 7 -> "7"
    [] d = 8 -> "8" [] d = 9 -> "9"

(***************************************************************************)
(* Scanning helpers shared by the numeric extractions.                     *)
(***************************************************************************)
RECURSIVE SkipWs(_, _)
\* first index >= p of s that holds no white space (Len(s) + 1 if none)
SkipWs(s, p) ==
  IF p <= Len(s) /\ IsSpace(s[p]) THEN SkipWs(s, p + 1) ELSE p

RECURSIVE ScanDigits(_, _)
\* index after the run of digits of s that starts at p
ScanDigits(s, p) ==
  IF p <= Len(s) /\ s[p] \in Digits THEN ScanDigits(s, p + 1) ELSE p

RECURSIVE DigitsValue(_, _, _)
\* value of the digits s[from .. to - 1]
DigitsValue(s, from, to) ==
  IF from >= to THEN 0
  ELSE DigitsValue(s, from, to - 1) * 10 + DigitVal(s[to - 1])

RECURSIVE Pow10(_)
Pow10(n) == IF n = 0 THEN 1 ELSE 10 * Pow10(n - 1)

\* std::setprecision(5) of the writer
OutPrecision == 5
\* number of decimals a coordinate keeps in the model: one more than is written
FracDigits == OutPrecision + 1
Scale == Pow10(FracDigits)

\* values an uninitialised variable may hold when it is read
Indeterminate == {0, 1}

(***************************************************************************)
(* Core::lexicalCast<T>(string): "T value; istringstream(s) >> value;      *)
(* return value;".  The one-argument overload has no failure channel, so   *)
(* the caller gets a value whatever the text is.  The result is the set of *)
(* values the call may return: text with nothing to extract leaves value   *)
(* uninitialised, text with no numeric prefix stores 0, and extraction     *)
(* stops at the first character that cannot continue the number.           *)
(***************************************************************************)
SignAt(s, p) == IF p <= Len(s) /\ s[p] = "-" THEN -1 ELSE 1
AfterSign(s, p) == IF p <= Len(s) /\ s[p] \in {"-", "+"} THEN p + 1 ELSE p

lexicalCastInt(s) ==
  LET p0 == SkipWs(s, 1)
      p1 == AfterSign(s, p0)
      p2 == ScanDigits(s, p1)
  IN  IF p0 > Len(s) THEN Indeterminate
      ELSE IF p2 = p1 THEN {0}
      ELSE {SignAt(s, p0) * DigitsValue(s, p1, p2)}

ShortMax == 32767

\* lexicalCast<short int>: an out-of-range value is clamped by num_get
lexicalCastShort(s) ==
  {IF v > ShortMax THEN ShortMax
   ELSE IF v < -ShortMax - 1 THEN -ShortMax - 1 ELSE v : v \in lexicalCastInt(s)}

\* the fraction digits s[from .. to - 1] as a count of 10^-FracDigits
FracValue(s, from, to) ==
  IF to - from <= FracDigits
    THEN DigitsValue(s, from, to) * Pow10(FracDigits - (to - from))
    ELSE DigitsValue(s, from, from + FracDigits)

lexicalCastDouble(s) ==
  LET p0 == SkipWs(s, 1)
      p1 == AfterSign(s, p0)
      p2 == ScanDigits(s, p1)
      dot == p2 <= Len(s) /\ s[p2] = "."
      p3 == IF dot THEN ScanDigits(s, p2 + 1) ELSE p2
      nDigits == (p2 - p1) + (IF dot THEN p3 - (p2 + 1) ELSE 0)
  IN  IF p0 > Len(s) THEN Indeterminate
      ELSE IF nDigits = 0 THEN {0}
      ELSE {SignAt(s, p0) * (DigitsValue(s, p1, p2) * Scale
                             + (IF dot THEN FracValue(s, p2 + 1, p3) ELSE 0))}

(***************************************************************************)
(* Core::split(string, delimiter): the items between delimiters, empty     *)
(* items skipped.                                                          *)
(***************************************************************************)
RECURSIVE SplitFrom(_, _, _, _)
SplitFrom(s, p, cur, d) ==
  IF p > Len(s) THEN (IF cur = <<>> THEN <<>> ELSE <<cur>>)
  ELSE IF s[p] = d
    THEN (IF cur = <<>> THEN <<>> ELSE <<cur>>) \o SplitFrom(s, p + 1, <<>>, d)
    ELSE SplitFrom(s, p + 1, Append(cur, s[p]), d)

split(s, d) == SplitFrom(s, 1, <<>>, d)

(***************************************************************************)
(* Core::trimmed(string): without leading and trailing " \n\r\t".          *)
(***************************************************************************)
RECURSIVE LastNonWs(_, _)
LastNonWs(s, p) == IF p >= 1 /\ IsSpace(s[p]) THEN LastNonWs(s, p - 1) ELSE p

trimmed(s) ==
  LET a == SkipWs(s, 1)
      b == LastNonWs(s, Len(s))
  IN  IF a > Len(s) THEN <<>> ELSE SubSeq(s, a, b)

(***************************************************************************)
(* Core::Elements: an excerpt of the periodic table.                       *)
(***************************************************************************)
KnownNumbers == {0, 1, 2, 6, 8}

symbol(n) ==
  CASE n = 1 -> <<"H">>
    [] n = 2 -> <<"H", "e">>
    [] n = 6 -> <<"C">>
    [] n = 8 -> <<"O">>
    [] OTHER -> <<"X", "x">>

\* a symbol the table does not hold yields atomic number 0
atomicNumberFromSymbol(tok) ==
  IF \E n \in KnownNumbers : symbol(n) = tok
    THEN CHOOSE n \in KnownNumbers : symbol(n) = tok
    ELSE 0

(***************************************************************************)
(* std::istream over the sequence data: the state of a stream is the index *)
(* of its next character and its eofbit and failbit.                       *)
(***************************************************************************)
StreamAtStart == [pos |-> 1, eof |-> FALSE, fail |-> FALSE]

Good(s) == ~s.eof /\ ~s.fail

\* inStream >> size_t: white space (line ends included) is skipped, then the
\* longest run of digits is taken; the characters after it stay in the stream.
\* The inputs of the model carry no sign.
ExtractSizeT(data, s) ==
  LET p0 == SkipWs(data, s.pos)
      p1 == ScanDigits(data, p0)
  IN  IF ~Good(s)
        THEN [st |-> [s EXCEPT !.fail = TRUE], ok |-> FALSE, value |-> 0]
      ELSE IF p0 > Len(data)
        THEN [st |-> [pos |-> p0, eof |-> TRUE, fail |-> TRUE],
              ok |-> FALSE, value |-> 0]
      ELSE IF p1 = p0
        THEN [st |-> [pos |-> p0, eof |-> FALSE, fail |-> TRUE],
              ok |-> FALSE, value |-> 0]
      ELSE [st |-> [pos |-> p1, eof |-> p1 > Len(data), fail |-> FALSE],
            ok |-> TRUE, value |-> DigitsValue(data, p0, p1)]

RECURSIVE LineEnd(_, _)
\* index of the first "\n" of data at or after p (Len(data) + 1 if none)
LineEnd(data, p) ==
  IF p <= Len(data) /\ data[p] # NL THEN LineEnd(data, p + 1) ELSE p

\* std::getline(stream, buffer): a stream that is not good fails the sentry and
\* leaves buffer as it was; otherwise buffer is erased and filled up to the next
\* "\n", which is consumed; reaching the end sets eofbit, and failbit too when
\* no character was extracted.
getline(data, s, buf) ==
  LET e == LineEnd(data, s.pos)
  IN  IF ~Good(s)
        THEN [st |-> [s EXCEPT !.fail = TRUE], ok |-> FALSE, buffer |-> buf]
      ELSE IF s.pos > Len(data)
        THEN [st |-> [pos |-> s.pos, eof |-> TRUE, fail |-> TRUE],
              ok |-> FALSE, buffer |-> <<>>]
      ELSE IF e > Len(data)
        THEN [st |-> [pos |-> e, eof |-> TRUE, fail |-> FALSE],
              ok |-> TRUE, buffer |-> SubSeq(data, s.pos, e - 1)]
      ELSE [st |-> [pos |-> e + 1, eof |-> FALSE, fail |-> FALSE],
            ok |-> TRUE, buffer |-> SubSeq(data, s.pos, e - 1)]

(***************************************************************************)
(* Core::Molecule: the name, the atoms (atomic number and position), the   *)
(* coordinate sets (coords[k + 1] is coordinate set k) and the number of   *)
(* bond perceptions requested.                                             *)
(***************************************************************************)
EmptyMolecule == [name |-> <<>>, atoms |-> <<>>, coords |-> <<>>, perceived |-> 0]

atomCount(m) == Len(m.atoms)

\* mol.addAtom(atomicNum) followed by newAtom.setPosition3d(pos)
addAtom(m, atomicNum, pos) ==
  [m EXCEPT !.atoms = Append(@, [num |-> atomicNum, pos |-> pos])]

atomPositions3d(m) == [k \in 1 .. Len(m.atoms) |-> m.atoms[k].pos]

\* mol.setCoordinate3d(coords, index): the list of sets grows to hold index
setCoordinate3d(m, c, index) ==
  LET grown == [k \in 1 .. (IF index + 1 > Len(m.coords) THEN index + 1
                            ELSE Len(m.coords)) |->
                  IF k <= Len(m.coords) THEN m.coords[k] ELSE <<>>]
  IN  [m EXCEPT !.coords = [grown EXCEPT ![index + 1] = c]]

setName(m, n) == [m EXCEPT !.name = n]

perceiveBondsSimple(m) == [m EXCEPT !.perceived = @ + 1]

(***************************************************************************)
(* Output formatting of XyzFormat::write.                                  *)
(***************************************************************************)
RECURSIVE ToDecimal(_)
\* operator<<(size_t): the decimal digits of n, no leading zero
ToDecimal(n) ==
  IF n < 10 THEN <<DigitChar(n)>>
  ELSE Append(ToDecimal(n \div 10), DigitChar(n % 10))

RECURSIVE FixedDigits(_, _)
\* the last k decimal digits of n, leading zeros kept
FixedDigits(n, k) ==
  IF k = 0 THEN <<>>
  ELSE Append(FixedDigits(n \div 10, k - 1), DigitChar(n % 10))

Abs(v) == IF v < 0 THEN -v ELSE v

\* the magnitude of v rounded to OutPrecision decimals, counted in 10^-OutPrecision
\* (a half is rounded away from zero)
RoundedMagnitude(v) == (Abs(v) + 5) \div 10

\* FormatFixed that loses the sign of a negative number
FormatFixedUnsigned(v) ==
  LET q == RoundedMagnitude(v)
      unit == Pow10(OutPrecision)
  IN  ToDecimal(q \div unit) \o <<".">> \o FixedDigits(q % unit, OutPrecision)

\* std::fixed << std::setprecision(5) << double
FormatFixed(v) ==
  LET q == RoundedMagnitude(v)
      unit == Pow10(OutPrecision)
  IN  (IF v < 0 THEN <<"-">> ELSE <<>>)
        \o ToDecimal(q \div unit) \o <<".">> \o FixedDigits(q % unit, OutPrecision)

Spaces(n) == [k \in 1 .. n |-> SP]

\* std::setw(w) << std::right
PadLeft(t, w) == IF Len(t) >= w THEN t ELSE Spaces(w - Len(t)) \o t

\* std::setw(w) << std::left
PadRight(t, w) == IF Len(t) >= w THEN t ELSE t \o Spaces(w - Len(t))

SymbolWidth == 3
NumberWidth == 10

DefaultComment ==
  <<"X", "Y", "Z", " ", "f", "i", "l", "e", " ", "g", "e", "n", "e", "r", "a",
    "t", "e", "d", " ", "b", "y", " ", "A", "v", "o", "g", "a", "d", "r", "o",
    ".">>

\* one atom line of the writer
WriteAtomLine(a) ==
  PadRight(symbol(a.num), SymbolWidth) \o <<SP>>
    \o PadLeft(FormatFixed(a.pos[1]), NumberWidth) \o <<SP>>
    \o PadLeft(FormatFixed(a.pos[2]), NumberWidth) \o <<SP>>
    \o PadLeft(FormatFixed(a.pos[3]), NumberWidth) \o <<NL>>

RECURSIVE WriteAtomLines(_, _)
WriteAtomLines(atoms, k) ==
  IF k > Len(atoms) THEN <<>>
  ELSE WriteAtomLine(atoms[k]) \o WriteAtomLines(atoms, k + 1)

\* the second line of the output
WriteNameLine(m) ==
  IF Len(m.name) # 0 THEN m.name \o <<NL>> ELSE DefaultComment \o <<NL>>

\* XyzWrite that takes the positions of the last coordinate set, if there is one
XyzWriteLastFrame(m) ==
  LET last == m.coords[Len(m.coords)]
      shown == IF Len(m.coords) = 0 THEN m.atoms
               ELSE [k \in 1 .. Len(m.atoms) |->
                       [num |-> m.atoms[k].num, pos |-> last[k]]]
  IN  ToDecimal(atomCount(m)) \o <<NL>> \o WriteNameLine(m)
        \o WriteAtomLines(shown, 1)

\* the text XyzFormat::write sends to outStream
XyzWrite(m) ==
  ToDecimal(atomCount(m)) \o <<NL>> \o WriteNameLine(m)
    \o WriteAtomLines(m.atoms, 1)

(***************************************************************************)
(* State.                                                                  *)
(***************************************************************************)
VARIABLES
  inData,     \* the characters of inStream
  stream,     \* position and state bits of inStream
  mol,        \* the molecule read into, or written from
  molBefore,  \* the molecule as it was when read was called
  numAtoms,   \* read: the declared atom count
  numAtoms2,  \* read: the atom count of the frame header
  buffer,     \* read: the line buffer
  i,          \* read: the index of the atom loops
  coordSet,   \* read: the index of the next coordinate set
  positions,  \* read: the positions of the frame being read
  pc,         \* the place of control
  result,     \* the value read returned: "none" while it has not returned
  errors,     \* the messages given to appendError
  outData,    \* the characters written to outStream
  encoded,    \* the molecule the last write was given
  round       \* 1: the first call, 2: the read of the text just written

\* OBProcess and the QProcess it owns
VARIABLES
  m_processLocked,  \* OBProcess::m_processLocked
  m_aborted,        \* OBProcess::m_aborted
  onFinished,       \* the slots connected to m_process's finished(int), in order
  onError,          \* the slots connected to m_process's error(ProcessError)
  logReaders,       \* connections of readyReadStandardError to the log reader
  abortKills,       \* aborted() is connected to m_process's kill()
  child,            \* the obabel process: "notRunning", "running" or "killed"
  pending,          \* what the ended process has still to signal, in order
  handlers,         \* the slots the signal being delivered has still to call
  hpc,              \* the place of control in the slot that is running
  nCalls,           \* the calls of the five request operations so far
  lastCall,         \* the operation called last and the value it returned
  accepted,         \* the requests accepted so far; the last one is the current
  emitted,          \* emitted[r]: the result signals emitted for request r
  abortedReq        \* the requests during whose flight abort() was called

xyzVars == <<inData, stream, mol, molBefore, numAtoms, numAtoms2, buffer, i,
             coordSet, positions, pc, result, errors, outData, encoded, round>>

obVars == <<m_processLocked, m_aborted, onFinished, onError, logReaders,
            abortKills, child, pending, handlers, hpc, nCalls, lastCall,
            accepted, emitted, abortedReq>>

vars == <<xyzVars, obVars>>

readLocals == <<numAtoms, numAtoms2, buffer, i, coordSet, positions>>

HeaderError == "Error parsing number of atoms."
TokensError == "Not enough tokens in this line: "
CountError == "Error parsing atom at index "

\* appendError(msg + text); index is the atom index the message names, or -1
Error(msg, index, text) == [msg |-> msg, index |-> index, text |-> text]

\* lines 83-87: the atomic number of the first token of an atom line
AtomicNumbers(tok) ==
  IF IsAlpha(tok[1]) THEN {atomicNumberFromSymbol(tok)}
  ELSE {v % 256 : v \in lexicalCastShort(tok)}

\* Positions with the token indices off by one: the element token read as x
PositionsFromElementToken(tokens) ==
  {<<x, y, z>> : x \in lexicalCastDouble(tokens[1]),
                 y \in lexicalCastDouble(tokens[2]),
                 z \in lexicalCastDouble(tokens[3])}

\* lines 89-90 and 124-126: the positions tokens 1-3 may be read as
Positions(tokens) ==
  {<<x, y, z>> : x \in lexicalCastDouble(tokens[2]),
                 y \in lexicalCastDouble(tokens[3]),
                 z \in lexicalCastDouble(tokens[4])}

(***************************************************************************)
(* XyzFormat::read, one action per step.                                   *)
(***************************************************************************)
\* lines 61-65
ReadHeader ==
  /\ pc = "header"
  /\ LET r == ExtractSizeT(inData, stream)
     IN  /\ stream' = r.st
         /\ numAtoms' = r.value
         /\ IF r.ok
              THEN /\ pc' = "name"
                   /\ UNCHANGED <<errors, result>>
              ELSE /\ errors' = Append(errors, Error(HeaderError, -1, <<>>))
                   /\ result' = "false"
                   /\ pc' = "done"
  /\ UNCHANGED <<inData, mol, molBefore, numAtoms2, buffer, i, coordSet,
                 positions, outData, encoded, round>>
  /\ UNCHANGED obVars

\* lines 67-71
ReadName ==
  /\ pc = "name"
  /\ LET g1 == getline(inData, stream, buffer)
         g2 == getline(inData, g1.st, g1.buffer)
     IN  /\ stream' = g2.st
         /\ buffer' = g2.buffer
         /\ mol' = IF g2.buffer # <<>> THEN setName(mol, trimmed(g2.buffer))
                   ELSE mol
  /\ i' = 0
  /\ pc' = "atoms"
  /\ UNCHANGED <<inData, molBefore, numAtoms, numAtoms2, coordSet, positions,
                 result, errors, outData, encoded, round>>
  /\ UNCHANGED obVars

\* lines 74-94: one turn of the atom loop
ReadAtomLine ==
  /\ pc = "atoms"
  /\ i < numAtoms
  /\ LET g == getline(inData, stream, buffer)
         tokens == split(g.buffer, SP)
     IN  /\ stream' = g.st
         /\ buffer' = g.buffer
         /\ IF Len(tokens) < 4
              THEN /\ errors' = Append(errors, Error(TokensError, -1, g.buffer))
                   /\ result' = "false"
                   /\ pc' = "done"
                   /\ UNCHANGED <<mol, i>>
              ELSE /\ \E atomicNum \in AtomicNumbers(tokens[1]) :
                        \E pos \in Positions(tokens) :
                          mol' = addAtom(mol, atomicNum, pos)
                   /\ i' = i + 1
                   /\ UNCHANGED <<errors, result, pc>>
  /\ UNCHANGED <<inData, molBefore, numAtoms, numAtoms2, coordSet, positions,
                 outData, encoded, round>>
  /\ UNCHANGED obVars

\* lines 96-104: the check after the atom loop
CheckAtomCount ==
  /\ pc = "atoms"
  /\ i >= numAtoms
  /\ IF atomCount(mol) # numAtoms
       THEN /\ errors' = Append(errors,
                                Error(CountError, atomCount(mol), buffer))
            /\ result' = "false"
            /\ pc' = "done"
       ELSE /\ pc' = "animation"
            /\ UNCHANGED <<errors, result>>
  /\ UNCHANGED <<inData, stream, mol, molBefore, readLocals, outData, encoded,
                 round>>
  /\ UNCHANGED obVars

\* CaptureFrameZero without the call of line 111
CaptureFrameZeroSkipped(m) == m

\* line 111: the positions of the atoms become coordinate set 0
CaptureFrameZero(m) == setCoordinate3d(m, atomPositions3d(m), 0)

\* lines 107-112: is there an animation?
CheckAnimation ==
  /\ pc = "animation"
  /\ LET g == getline(inData, stream, buffer)
         skip == getline(inData, g.st, g.buffer)
     IN  IF ~g.ok
           THEN /\ stream' = g.st
                /\ buffer' = g.buffer
                /\ pc' = "finish"
                /\ UNCHANGED <<mol, numAtoms2, coordSet, positions, i>>
           ELSE \E m \in lexicalCastInt(g.buffer) :
                  /\ numAtoms2' = m
                  /\ IF m # 0 /\ numAtoms = m
                       THEN /\ stream' = skip.st
                            /\ buffer' = skip.buffer
                            /\ mol' = CaptureFrameZero(mol)
                            /\ coordSet' = 1
                            /\ positions' = <<>>
                            /\ i' = 0
                            /\ pc' = "frame"
                       ELSE /\ stream' = g.st
                            /\ buffer' = g.buffer
                            /\ pc' = "finish"
                            /\ UNCHANGED <<mol, coordSet, positions, i>>
  /\ UNCHANGED <<inData, molBefore, numAtoms, result, errors, outData, encoded,
                 round>>
  /\ UNCHANGED obVars

\* lines 117-128: one turn of the loop over the atom lines of a frame
ReadFrameLine ==
  /\ pc = "frame"
  /\ i < numAtoms
  /\ LET g == getline(inData, stream, buffer)
         tokens == split(g.buffer, SP)
     IN  /\ stream' = g.st
         /\ buffer' = g.buffer
         /\ IF Len(tokens) < 4
              THEN /\ errors' = Append(errors, Error(TokensError, -1, g.buffer))
                   /\ result' = "false"
                   /\ pc' = "done"
                   /\ UNCHANGED <<positions, i>>
              ELSE /\ \E pos \in Positions(tokens) :
                        positions' = Append(positions, pos)
                   /\ i' = i + 1
                   /\ UNCHANGED <<errors, result, pc>>
  /\ UNCHANGED <<inData, mol, molBefore, numAtoms, numAtoms2, coordSet,
                 outData, encoded, round>>
  /\ UNCHANGED obVars

\* StoreFrame that reads no lookahead line and goes round the frame loop again
StoreFrameNoLookahead ==
  /\ pc = "frame"
  /\ i >= numAtoms
  /\ mol' = setCoordinate3d(mol, positions, coordSet)
  /\ positions' = <<>>
  /\ i' = 0
  /\ UNCHANGED <<inData, stream, molBefore, numAtoms, numAtoms2, buffer,
                 coordSet, pc, result, errors, outData, encoded, round>>
  /\ UNCHANGED obVars

\* lines 130-139 and the loop condition of line 113: the frame is stored; only
\* when no line follows is numAtoms2 assigned again
StoreFrame ==
  /\ pc = "frame"
  /\ i >= numAtoms
  /\ mol' = setCoordinate3d(mol, positions, coordSet)
  /\ coordSet' = coordSet + 1
  /\ LET g == getline(inData, stream, buffer)
         skip == getline(inData, g.st, g.buffer)
     IN  IF ~g.ok
           THEN \E m \in lexicalCastInt(g.buffer) :
                  /\ numAtoms2' = m
                  /\ IF numAtoms = m
                       THEN /\ stream' = g.st
                            /\ buffer' = g.buffer
                            /\ UNCHANGED positions
                       ELSE /\ stream' = skip.st
                            /\ buffer' = skip.buffer
                            /\ positions' = <<>>
                  /\ pc' = "finish"
                  /\ UNCHANGED i
           ELSE /\ stream' = skip.st
                /\ buffer' = skip.buffer
                /\ positions' = <<>>
                /\ UNCHANGED numAtoms2
                /\ IF numAtoms = numAtoms2
                     THEN /\ i' = 0
                          /\ pc' = "frame"
                     ELSE /\ pc' = "finish"
                          /\ UNCHANGED i
  /\ UNCHANGED <<inData, molBefore, numAtoms, result, errors, outData, encoded,
                 round>>
  /\ UNCHANGED obVars

\* FinishRead without the call of line 144
FinishReadUnperceived ==
  /\ pc = "finish"
  /\ result' = "true"
  /\ pc' = "done"
  /\ UNCHANGED <<inData, stream, mol, molBefore, readLocals, errors, outData,
                 encoded, round>>
  /\ UNCHANGED obVars

\* lines 143-146
FinishRead ==
  /\ pc = "finish"
  /\ mol' = perceiveBondsSimple(mol)
  /\ result' = "true"
  /\ pc' = "done"
  /\ UNCHANGED <<inData, stream, molBefore, readLocals, errors, outData,
                 encoded, round>>
  /\ UNCHANGED obVars

(***************************************************************************)
(* XyzFormat::write (lines 149-176), and the read of the text it wrote.    *)
(* Every index below atomCount is a valid atom, so write returns true.     *)
(***************************************************************************)
WriteMolecule ==
  /\ pc \in {"idle", "done"}
  /\ pc = "done" => (result = "true" /\ round = 1)
  /\ outData' = XyzWrite(mol)
  /\ encoded' = mol
  /\ pc' = "written"
  /\ UNCHANGED <<inData, stream, mol, molBefore, readLocals, result, errors,
                 round>>
  /\ UNCHANGED obVars

\* a second call of read, on the text just written and an empty molecule
ReadBack ==
  /\ pc = "written"
  /\ inData' = outData
  /\ stream' = StreamAtStart
  /\ mol' = EmptyMolecule
  /\ molBefore' = EmptyMolecule
  /\ numAtoms' = 0
  /\ numAtoms2' = 0
  /\ buffer' = <<>>
  /\ i' = 0
  /\ coordSet' = 0
  /\ positions' = <<>>
  /\ result' = "none"
  /\ errors' = <<>>
  /\ round' = 2
  /\ pc' = "header"
  /\ UNCHANGED <<outData, encoded>>
  /\ UNCHANGED obVars

(***************************************************************************)
(* Inputs: the lines streams are made of.  A specimen is a well-formed     *)
(* atom line together with the atom it stands for.                         *)
(***************************************************************************)
Specimens ==
  << [text |-> <<"C", " ", "0", " ", "0", " ", "0">>,
      num |-> 6, pos |-> <<0, 0, 0>>],
     [text |-> <<"H", " ", "1", ".", "5", " ", "0", " ", "-", "2">>,
      num |-> 1, pos |-> <<1500000, 0, -2000000>>],
     [text |-> <<" ", "H", "e", " ", " ", "0", ".", "2", "5", " ", "1", " ", "1">>,
      num |-> 2, pos |-> <<250000, 1000000, 1000000>>],
     [text |-> <<"8", " ", "1", " ", "2", " ", "3">>,
      num |-> 8, pos |-> <<1000000, 2000000, 3000000>>],
     [text |-> <<"O", " ", "0", ".", "0", "0", "0", "0", "0", "4", " ", "2",
                 " ", "1", " ", "7">>,
      num |-> 8, pos |-> <<4, 2000000, 1000000>>] >>

SpecimenTexts == {Specimens[k].text : k \in 1 .. Len(Specimens)}

SpecimenOf(line) == CHOOSE k \in 1 .. Len(Specimens) : Specimens[k].text = line

\* lines that are not well-formed atom lines
ShortLine == <<"C", " ", "1", " ", "2">>
BadCoordLine == <<"C", " ", "a", " ", "2", " ", "3">>
LoneTabLine == <<"C", " ", "1", " ", "2", " ", TAB>>
TabbedLine == <<"C", TAB, "1", TAB, "2", TAB, "3">>
BlankLine == <<>>
\* an atom line whose element token is a number no unsigned char holds
WrappingLine == <<"2", "6", "2", " ", "0", " ", "0", " ", "0">>

BodyLines ==
  {Specimens[1].text, Specimens[2].text, <<"1">>, <<"2">>, <<"3">>,
   BlankLine, ShortLine, BadCoordLine, LoneTabLine, TabbedLine}

HeaderLines ==
  {<<"0">>, <<"1">>, <<"2">>, <<"3">>, <<" ", "2">>, <<"2", "a">>, <<"x">>,
   BlankLine}

CommentLines == {<<"m", " ", "f">>, BlankLine}

SeqsUpTo(S, n) == UNION {[1 .. k -> S] : k \in 0 .. n}

RECURSIVE JoinLines(_)
\* the lines with "\n" between them
JoinLines(lines) ==
  IF Len(lines) = 0 THEN <<>>
  ELSE IF Len(lines) = 1 THEN lines[1]
  ELSE lines[1] \o <<NL>> \o JoinLines(Tail(lines))

\* the characters of a stream holding these lines; nl: the last line is ended
StreamText(lines, nl) == JoinLines(lines) \o (IF nl THEN <<NL>> ELSE <<>>)

\* short streams of any lines
FreeStreams ==
  {StreamText(<<h, c>> \o body, nl) :
     h \in HeaderLines, c \in CommentLines,
     body \in SeqsUpTo(BodyLines, MaxBody), nl \in BOOLEAN}

\* line ln (from 0) of block b (from 0) of a well-formed stream
BlockAtomLine(b, ln, v) == Specimens[((2 * b + ln + v) % Len(Specimens)) + 1].text

BlockComment(b, v) ==
  IF b = 0 THEN (IF v = 0 THEN <<"m", " ", "f">> ELSE <<" ", "m", " ">>)
  ELSE (IF v = 0 THEN BlankLine ELSE <<"f">>)

Block(n, b, v) ==
  <<ToDecimal(n), BlockComment(b, v)>> \o [ln \in 1 .. n |-> BlockAtomLine(b, ln - 1, v)]

RECURSIVE Blocks(_, _, _)
\* blocks 0 .. k of n atom lines each
Blocks(n, k, v) ==
  IF k = 0 THEN Block(n, 0, v) ELSE Blocks(n, k - 1, v) \o Block(n, k, v)

\* lines that may stand in the place of the last atom line of a stream
CorruptLines == {ShortLine, BadCoordLine, BlankLine, LoneTabLine, WrappingLine}

\* the lines with the last one replaced
WithLast(lines, last) == [lines EXCEPT ![Len(lines)] = last]

\* what may follow the blocks of a stream: nothing, or one line
Tails == {<<>>} \cup {<<l>> : l \in BodyLines}

\* well-formed blocks, possibly with a damaged last atom line, and a tail
BlockStreams ==
  {StreamText(w \o tail, nl) :
     w \in UNION {{Blocks(n, k, v)} \cup
                  (IF n > 0 THEN {WithLast(Blocks(n, k, v), c) : c \in CorruptLines}
                   ELSE {}) :
                  n \in 0 .. MaxAtoms, k \in 0 .. MaxFrames, v \in {0, 1}},
     tail \in Tails, nl \in BOOLEAN}

\* a molecule that holds an atom before read is called
OneAtomMolecule == addAtom(EmptyMolecule, 8, <<0, 0, 1000000>>)

(***************************************************************************)
(* Inputs: the molecules handed to write.                                  *)
(***************************************************************************)
SnapshotAtoms ==
  {[num |-> 6, pos |-> <<0, 0, 0>>],
   [num |-> 1, pos |-> <<1000000, 0, 0>>],
   [num |-> 2, pos |-> <<-1234567895, 4, 99999995>>]}

SnapshotNames ==
  {<<>>, <<"m", " ", "f">>, <<" ", "m">>, <<"m", " ">>, <<SP>>, <<"a", NL, "b">>}

\* a second coordinate set: every atom moved along x
Moved(atoms) == [k \in 1 .. Len(atoms) |->
                   <<atoms[k].pos[1] + Scale, atoms[k].pos[2], atoms[k].pos[3]>>]

Snapshots ==
  {[name |-> n, atoms |-> a, coords |-> c, perceived |-> 0] :
     n \in SnapshotNames,
     a \in SeqsUpTo(SnapshotAtoms, MaxAtoms),
     c \in {<<>>}} \cup
  {[name |-> n, atoms |-> a,
    coords |-> <<[k \in 1 .. Len(a) |-> a[k].pos], Moved(a)>>,
    perceived |-> 0] :
     n \in SnapshotNames,
     a \in SeqsUpTo(SnapshotAtoms, MaxAtoms) \ {<<>>}}

(***************************************************************************)
(* OBProcess (obprocess.cpp).  The five request operations share the lock  *)
(* m_processLocked and the one QProcess; each connects the process's       *)
(* finished and error signals to its own completion slot.                  *)
(***************************************************************************)
Kinds ==
  {"queryReadFormats", "readFile", "convert", "queryForceFields",
   "optimizeGeometry"}

NoCall == [kind |-> "none", ok |-> FALSE]

\* what a process that has ended signals: finished after a normal exit, error
\* when it could not be started, and both when it crashed or was killed
Outcomes ==
  {<<"finished">>, <<"error">>, <<"error", "finished">>, <<"finished", "error">>}

\* lines 27-39: the state the constructor leaves
OBConstructed ==
  /\ m_processLocked = FALSE
  /\ m_aborted = FALSE
  /\ onFinished = <<>>
  /\ onError = <<>>
  /\ logReaders = 0
  /\ abortKills = FALSE
  /\ child = "notRunning"
  /\ pending = <<>>
  /\ handlers = <<>>
  /\ hpc = "idle"
  /\ nCalls = 0
  /\ lastCall = NoCall
  /\ accepted = 0
  /\ emitted = [r \in 1 .. MaxCalls |-> 0]
  /\ abortedReq = {}

\* no signal of the process is being delivered and no slot is running: control
\* is in the event loop, where the callers of OBProcess run
Quiet == hpc = "idle" /\ handlers = <<>> /\ pending = <<>>

\* OBProcess::tryLockProcess: whether a process with this lock can be taken
tryLockProcess(locked) == ~locked

\* OBProcess::releaseProcess: the value it gives the lock
releaseProcess == FALSE

\* lines 238-239: optimizeGeometry connects the log reader, the others do not
LogReadersAfter(kind, n) == IF kind = "optimizeGeometry" THEN n + 1 ELSE n

\* the request goes on: tryLockProcess took the lock and reset the state
\* (lines 310-316: m_aborted cleared, every connection of the process dropped,
\* aborted() connected to kill()), then executeObabel (lines 292-308) connects
\* finished and error to the slot of the request and starts the process
RequestAccepted(kind) ==
  /\ m_processLocked' = TRUE
  /\ m_aborted' = FALSE
  /\ abortKills' = TRUE
  /\ logReaders' = LogReadersAfter(kind, 0)
  /\ onFinished' = <<kind>>
  /\ onError' = <<kind>>
  /\ child' = "running"
  /\ accepted' = accepted + 1
  /\ lastCall' = [kind |-> kind, ok |-> TRUE]
  /\ UNCHANGED <<pending, emitted, abortedReq>>

\* the request is turned away: "process already in use", return false
RequestRejected(kind) ==
  /\ lastCall' = [kind |-> kind, ok |-> FALSE]
  /\ UNCHANGED <<m_processLocked, m_aborted, abortKills, logReaders, onFinished,
                 onError, child, pending, accepted, emitted, abortedReq>>

\* Request without the early return: a call that did not get the lock still
\* connects its slot and starts the process
RequestWithoutEarlyReturn(kind) ==
  /\ nCalls < MaxCalls
  /\ nCalls' = nCalls + 1
  /\ IF tryLockProcess(m_processLocked)
       THEN RequestAccepted(kind)
       ELSE /\ logReaders' = LogReadersAfter(kind, logReaders)
            /\ onFinished' = Append(onFinished, kind)
            /\ onError' = Append(onError, kind)
            /\ child' = "running"
            /\ accepted' = accepted + 1
            /\ lastCall' = [kind |-> kind, ok |-> TRUE]
            /\ UNCHANGED <<m_processLocked, m_aborted, abortKills, pending,
                           emitted, abortedReq>>

\* lines 47-60, 87-115, 144-159, 188-200 and 226-248: a call of one of the five
\* request operations
Request(kind) ==
  /\ nCalls < MaxCalls
  /\ nCalls' = nCalls + 1
  /\ IF tryLockProcess(m_processLocked)
       THEN RequestAccepted(kind)
       ELSE RequestRejected(kind)

queryReadFormats ==
  /\ Quiet
  /\ Request("queryReadFormats")
  /\ UNCHANGED <<handlers, hpc, xyzVars>>

readFile ==
  /\ Quiet
  /\ Request("readFile")
  /\ UNCHANGED <<handlers, hpc, xyzVars>>

convert ==
  /\ Quiet
  /\ Request("convert")
  /\ UNCHANGED <<handlers, hpc, xyzVars>>

queryForceFields ==
  /\ Quiet
  /\ Request("queryForceFields")
  /\ UNCHANGED <<handlers, hpc, xyzVars>>

optimizeGeometry ==
  /\ Quiet
  /\ Request("optimizeGeometry")
  /\ UNCHANGED <<handlers, hpc, xyzVars>>

\* lines 41-45: abort() sets the flag and emits aborted(), which kills the
\* process when it is connected to kill() and the process runs
abort ==
  /\ Quiet
  /\ m_aborted' = TRUE
  /\ child' = IF abortKills /\ child = "running" THEN "killed" ELSE child
  /\ abortedReq' = IF m_processLocked THEN abortedReq \cup {accepted}
                   ELSE abortedReq
  /\ UNCHANGED <<m_processLocked, onFinished, onError, logReaders, abortKills,
                 pending, handlers, hpc, nCalls, lastCall, accepted, emitted,
                 xyzVars>>

\* the obabel process ends, of itself or killed
ChildEnds ==
  /\ Quiet
  /\ child # "notRunning"
  /\ child' = "notRunning"
  /\ \E o \in Outcomes : pending' = o
  /\ UNCHANGED <<m_processLocked, m_aborted, onFinished, onError, logReaders,
                 abortKills, handlers, hpc, nCalls, lastCall, accepted, emitted,
                 abortedReq, xyzVars>>

\* QProcess emits the next signal of the ended process: the slots connected to
\* it at this moment are called in turn
Deliver ==
  /\ hpc = "idle"
  /\ handlers = <<>>
  /\ pending # <<>>
  /\ pending' = Tail(pending)
  /\ LET slots == IF Head(pending) = "finished" THEN onFinished ELSE onError
     IN  /\ handlers' = slots
         /\ hpc' = IF slots # <<>> THEN "entry" ELSE "idle"
  /\ UNCHANGED <<m_processLocked, m_aborted, onFinished, onError, logReaders,
                 abortKills, child, nCalls, lastCall, accepted, emitted,
                 abortedReq, xyzVars>>

\* lines 140-141 and 184-185: readFilePrepareOutput and convertPrepareOutput
\* emit the result and then release; lines 82-83, 222-223 and 259-260: the
\* other three release and then emit
EmitsBeforeRelease(kind) == kind \in {"readFile", "convert"}

\* the place of control after the slot that is running has returned
AfterReturn == IF Tail(handlers) # <<>> THEN "entry" ELSE "idle"

\* HandlerEnter whose aborted path returns without releaseProcess()
HandlerEnterKeepsLock ==
  /\ hpc = "entry"
  /\ IF m_aborted
       THEN /\ handlers' = Tail(handlers)
            /\ hpc' = AfterReturn
       ELSE /\ hpc' = IF EmitsBeforeRelease(Head(handlers)) THEN "emit"
                      ELSE "release"
            /\ UNCHANGED handlers
  /\ UNCHANGED <<m_processLocked, m_aborted, onFinished, onError, logReaders,
                 abortKills, child, pending, nCalls, lastCall, accepted,
                 emitted, abortedReq, xyzVars>>

\* lines 64-67, 119-122, 163-166, 204-207 and 252-255: a completion slot
\* starts; after abort() it releases the process and returns
HandlerEnter ==
  /\ hpc = "entry"
  /\ IF m_aborted
       THEN /\ m_processLocked' = releaseProcess
            /\ handlers' = Tail(handlers)
            /\ hpc' = AfterReturn
       ELSE /\ hpc' = IF EmitsBeforeRelease(Head(handlers)) THEN "emit"
                      ELSE "release"
            /\ UNCHANGED <<m_processLocked, handlers>>
  /\ UNCHANGED <<m_aborted, onFinished, onError, logReaders, abortKills, child,
                 pending, nCalls, lastCall, accepted, emitted, abortedReq,
                 xyzVars>>

\* lines 82, 141, 185, 222 and 259: releaseProcess()
HandlerRelease ==
  /\ hpc = "release"
  /\ m_processLocked' = releaseProcess
  /\ IF EmitsBeforeRelease(Head(handlers))
       THEN /\ handlers' = Tail(handlers)
            /\ hpc' = AfterReturn
       ELSE /\ hpc' = "emit"
            /\ UNCHANGED handlers
  /\ UNCHANGED <<m_aborted, onFinished, onError, logReaders, abortKills, child,
                 pending, nCalls, lastCall, accepted, emitted, abortedReq,
                 xyzVars>>

\* lines 83, 140, 184, 223 and 260: the result signal of the current request is
\* emitted; the slots connected to it run next
HandlerEmit ==
  /\ hpc = "emit"
  /\ emitted' = [emitted EXCEPT ![accepted] = @ + 1]
  /\ hpc' = "slot"
  /\ UNCHANGED <<m_processLocked, m_aborted, onFinished, onError, logReaders,
                 abortKills, child, pending, handlers, nCalls, lastCall,
                 accepted, abortedReq, xyzVars>>

\* a slot connected to the result signal runs inside the emit: it may call one
\* of the request operations; then the emit returns to the completion slot
SlotReacts ==
  /\ hpc = "slot"
  /\ \E r \in Kinds \cup {"none"} :
       IF r = "none"
         THEN UNCHANGED <<m_processLocked, m_aborted, onFinished, onError,
                          logReaders, abortKills, child, pending, nCalls,
                          lastCall, accepted, emitted, abortedReq>>
         ELSE Request(r)
  /\ IF EmitsBeforeRelease(Head(handlers))
       THEN /\ hpc' = "release"
            /\ UNCHANGED handlers
       ELSE /\ handlers' = Tail(handlers)
            /\ hpc' = AfterReturn
  /\ UNCHANGED xyzVars

(***************************************************************************)
(* The state machine.                                                      *)
(***************************************************************************)
InitLocals ==
  /\ stream = StreamAtStart
  /\ numAtoms = 0
  /\ numAtoms2 = 0
  /\ buffer = <<>>
  /\ i = 0
  /\ coordSet = 0
  /\ positions = <<>>
  /\ result = "none"
  /\ errors = <<>>
  /\ outData = <<>>
  /\ encoded = EmptyMolecule
  /\ round = 1
  /\ OBConstructed

\* read is called on a stream
InitRead ==
  /\ inData \in FreeStreams \cup BlockStreams
  /\ mol \in (IF inData \in FreeStreams THEN {EmptyMolecule, OneAtomMolecule}
              ELSE {EmptyMolecule})
  /\ molBefore = mol
  /\ pc = "header"
  /\ InitLocals

\* write is called on a molecule
InitWrite ==
  /\ inData = <<>>
  /\ mol \in Snapshots
  /\ molBefore = mol
  /\ pc = "idle"
  /\ InitLocals

Init == InitRead \/ InitWrite

Next ==
  \/ ReadHeader
  \/ ReadName
  \/ ReadAtomLine
  \/ CheckAtomCount
  \/ CheckAnimation
  \/ ReadFrameLine
  \/ StoreFrame
  \/ FinishRead
  \/ WriteMolecule
  \/ ReadBack

Spec == Init /\ [][Next]_vars

\* an OBProcess has been constructed; no xyz file is read or written
InitOB ==
  /\ inData = <<>>
  /\ mol = EmptyMolecule
  /\ molBefore = mol
  /\ pc = "unused"
  /\ InitLocals

NextOB ==
  \/ queryReadFormats
  \/ readFile
  \/ convert
  \/ queryForceFields
  \/ optimizeGeometry
  \/ abort
  \/ ChildEnds
  \/ Deliver
  \/ HandlerEnter
  \/ HandlerRelease
  \/ HandlerEmit
  \/ SlotReacts

SpecOB == InitOB /\ [][NextOB]_vars

\* the steps Qt takes of itself: a signal of the ended process is delivered, and
\* a slot that was called runs until it returns
QtSteps ==
  \/ Deliver
  \/ HandlerEnter
  \/ HandlerRelease
  \/ HandlerEmit
  \/ SlotReacts

SpecOBFair == SpecOB /\ WF_vars(QtSteps)

(***************************************************************************)
(* What the properties say about the input text, stated on the characters  *)
(* of the stream and not on what read makes of them.                       *)
(***************************************************************************)
RECURSIVE LinesOf(_)
\* the lines of a text; a final "\n" ends the last line and opens no other
LinesOf(data) ==
  IF data = <<>> THEN <<>>
  ELSE LET e == LineEnd(data, 1)
       IN  <<SubSeq(data, 1, e - 1)>> \o
           (IF e >= Len(data) THEN <<>> ELSE LinesOf(SubSeq(data, e + 1, Len(data))))

InLines == LinesOf(inData)

\* a line that is a decimal count and nothing else
IsCountLine(line) ==
  /\ Len(line) > 0
  /\ \A k \in 1 .. Len(line) : line[k] \in Digits
  /\ Len(line) > 1 => line[1] # "0"

CountOfLine(line) == DigitsValue(line, 1, Len(line) + 1)

\* the declared count of a stream that starts with a count line
Declared == CountOfLine(InLines[1])

\* lines from .. from + n - 1 exist and are well-formed atom lines
AtomBlockAt(from, n) ==
  /\ Len(InLines) >= from + n - 1
  /\ \A k \in from .. from + n - 1 : InLines[k] \in SpecimenTexts

\* the atoms, and the positions, lines from .. from + n - 1 stand for
AtomsAt(from, n) ==
  [k \in 1 .. n |-> [num |-> Specimens[SpecimenOf(InLines[from + k - 1])].num,
                     pos |-> Specimens[SpecimenOf(InLines[from + k - 1])].pos]]

PositionsAt(from, n) ==
  [k \in 1 .. n |-> Specimens[SpecimenOf(InLines[from + k - 1])].pos]

\* the stream starts with a count line, a comment line and that many atom lines
InitialBlock ==
  /\ Len(InLines) >= 2
  /\ IsCountLine(InLines[1])
  /\ AtomBlockAt(3, Declared)

ReadDone == pc = "done"
ReadSucceeded == pc = "done" /\ result = "true" /\ errors = <<>>

(***************************************************************************)
(* C1: a stream made of a header line holding N, a comment line and        *)
(* exactly N well-formed atom lines, read into an empty molecule, is read  *)
(* with success and gives exactly the N atoms of its lines, in file order. *)
(***************************************************************************)
SingleBlockInput ==
  /\ molBefore = EmptyMolecule
  /\ InitialBlock
  /\ Len(InLines) = Declared + 2

C1_SingleBlockDecodes ==
  (ReadDone /\ SingleBlockInput) =>
    (ReadSucceeded /\ mol.atoms = AtomsAt(3, Declared))

C1_Witness ==
  ReadDone /\ SingleBlockInput /\ round = 1 /\ atomCount(mol) >= 2

(***************************************************************************)
(* C2: an initial block of N >= 1 atoms followed by k >= 1 further blocks  *)
(* (a header line equal to N, one line of any content, N atom lines) and   *)
(* the end of the stream is read with success: N atoms, coordinate set 0   *)
(* with the positions of the initial block and coordinate sets 1 .. k with *)
(* the positions of blocks 1 .. k, and no other coordinate set.            *)
(***************************************************************************)
BlockLength == Declared + 2

FrameBlocks == (Len(InLines) \div BlockLength) - 1

MultiBlockInput ==
  /\ molBefore = EmptyMolecule
  /\ InitialBlock
  /\ Declared >= 1
  /\ Len(InLines) % BlockLength = 0
  /\ FrameBlocks >= 1
  /\ \A b \in 1 .. FrameBlocks :
       /\ InLines[b * BlockLength + 1] = InLines[1]
       /\ AtomBlockAt(b * BlockLength + 3, Declared)

C2_FramesDecode ==
  (ReadDone /\ MultiBlockInput) =>
    /\ ReadSucceeded
    /\ mol.atoms = AtomsAt(3, Declared)
    /\ Len(mol.coords) = FrameBlocks + 1
    /\ \A b \in 0 .. FrameBlocks :
         mol.coords[b + 1] = PositionsAt(b * BlockLength + 3, Declared)

C2_Witness ==
  ReadDone /\ MultiBlockInput /\ FrameBlocks >= 2 /\ Declared >= 2

(***************************************************************************)
(* C3: after a well-formed initial block of N atoms, when the next line is *)
(* absent, is not an integer, or is an integer other than N, read succeeds *)
(* with the N atoms, stores no coordinate set and reports no error.        *)
(***************************************************************************)
\* a line that is an integer and nothing else, white space around it aside
IsIntegerLine(line) == IsCountLine(trimmed(line))

NoFrameFollows ==
  \/ Len(InLines) = Declared + 2
  \/ ~IsIntegerLine(InLines[Declared + 3])
  \/ CountOfLine(trimmed(InLines[Declared + 3])) # Declared

C3_NoFrameNoError ==
  (ReadDone /\ molBefore = EmptyMolecule /\ InitialBlock /\ NoFrameFollows) =>
    (ReadSucceeded /\ mol.atoms = AtomsAt(3, Declared) /\ mol.coords = <<>>)

(***************************************************************************)
(* C5: an atom line that read needs, in the initial block or in a frame    *)
(* block, and that has fewer than 4 tokens separated by white space makes  *)
(* read fail with an error message that holds the text of that line.       *)
(***************************************************************************)
RECURSIVE WsTokensFrom(_, _, _)
\* the tokens of a line, separated by runs of white space of any kind
WsTokensFrom(s, p, cur) ==
  IF p > Len(s) THEN (IF cur = <<>> THEN <<>> ELSE <<cur>>)
  ELSE IF IsSpace(s[p])
    THEN (IF cur = <<>> THEN <<>> ELSE <<cur>>) \o WsTokensFrom(s, p + 1, <<>>)
    ELSE WsTokensFrom(s, p + 1, Append(cur, s[p]))

WsTokens(line) == WsTokensFrom(line, 1, <<>>)

\* read is about to read an atom line, and the stream holds one
AtomLineDue ==
  /\ pc \in {"atoms", "frame"}
  /\ i < numAtoms
  /\ Good(stream)
  /\ stream.pos <= Len(inData)

\* the line the next getline delivers
DueLine == SubSeq(inData, stream.pos, LineEnd(inData, stream.pos) - 1)

\* read has just failed with a message that holds this text
FailsNaming(line) ==
  /\ pc' = "done"
  /\ result' = "false"
  /\ Len(errors') = Len(errors) + 1
  /\ errors'[Len(errors')].text = line

C5_ShortLineFails ==
  [][(AtomLineDue /\ Len(WsTokens(DueLine)) < 4) => FailsNaming(DueLine)]_vars

(***************************************************************************)
(* C6: an atom line with at least 4 tokens of which token 1, 2 or 3 is not *)
(* a number makes read fail with an error that names the line; the line    *)
(* gives no atom and no frame position.                                    *)
(***************************************************************************)
\* the token is a decimal number and nothing else
IsNumberToken(t) ==
  LET p1 == AfterSign(t, 1)
      p2 == ScanDigits(t, p1)
      p3 == IF p2 <= Len(t) /\ t[p2] = "." THEN ScanDigits(t, p2 + 1) ELSE p2
  IN  p2 > p1 /\ p3 > Len(t)

HasBadCoordinate(line) ==
  /\ Len(WsTokens(line)) >= 4
  /\ \E k \in 2 .. 4 : ~IsNumberToken(WsTokens(line)[k])

C6_BadCoordinateFails ==
  [][(AtomLineDue /\ HasBadCoordinate(DueLine)) =>
       (FailsNaming(DueLine) /\ mol' = mol /\ positions' = positions)]_vars

(***************************************************************************)
(* C7: when the header declares N atoms and the stream ends after fewer    *)
(* than N atom lines, all of them well-formed, read fails with the         *)
(* atom-count error "Error parsing atom at index".                         *)
(***************************************************************************)
TruncatedInput ==
  /\ molBefore = EmptyMolecule
  /\ Len(InLines) >= 3
  /\ IsCountLine(InLines[1])
  /\ Len(InLines) - 2 < Declared
  /\ \A k \in 3 .. Len(InLines) : InLines[k] \in SpecimenTexts

C7_TruncatedIsCountError ==
  (ReadDone /\ TruncatedInput) =>
    (result = "false" /\ Len(errors) = 1 /\ errors[1].msg = CountError)

(***************************************************************************)
(* C8: when the first line of the stream is not, as a whole, an unsigned   *)
(* integer, read fails with the header error and reads no atom line.       *)
(***************************************************************************)
FirstLine == IF inData = <<>> THEN <<>> ELSE SubSeq(inData, 1, LineEnd(inData, 1) - 1)

C8_BadHeaderFails ==
  (ReadDone /\ ~IsIntegerLine(FirstLine)) =>
    /\ result = "false"
    /\ Len(errors) = 1
    /\ errors[1].msg = HeaderError
    /\ mol = molBefore

(***************************************************************************)
(* C9: when read returns failure, the molecule it was given is as it was   *)
(* before the call: no name, atom or coordinate set was added.             *)
(***************************************************************************)
C9_FailureLeavesMolecule ==
  (ReadDone /\ result = "false") => mol = molBefore

(***************************************************************************)
(* C4 as stated: writing a molecule that has no further coordinate set,    *)
(* atoms of known elements and a name that is not empty, and reading the   *)
(* text into an empty molecule, gives the same atoms in the same order     *)
(* (positions equal within the output precision) and the same name.        *)
(***************************************************************************)
\* 10^-OutPrecision, in the unit of the positions
Tolerance == Scale \div Pow10(OutPrecision)

\* |a - b| <= Tolerance, computed without leaving the 32-bit integers
Close(a, b) ==
  IF (a < 0) = (b < 0) THEN Abs(a - b) <= Tolerance
  ELSE Abs(a) <= Tolerance /\ Abs(b) <= Tolerance /\ Abs(a) + Abs(b) <= Tolerance

Near(p, q) == \A c \in 1 .. 3 : Close(p[c], q[c])

SameAtoms(a, b) ==
  /\ Len(a) = Len(b)
  /\ \A k \in 1 .. Len(a) : a[k].num = b[k].num /\ Near(a[k].pos, b[k].pos)

\* the molecule written had only frame 0, known elements and a name
RoundTripInput ==
  /\ round = 2
  /\ encoded.coords = <<>>
  /\ encoded.name # <<>>
  /\ \A k \in 1 .. Len(encoded.atoms) : encoded.atoms[k].num \in KnownNumbers \ {0}

C4_RoundTripAnyName ==
  (ReadDone /\ RoundTripInput) =>
    (ReadSucceeded /\ SameAtoms(mol.atoms, encoded.atoms) /\ mol.name = encoded.name)

(***************************************************************************)
(* C4 amended: the round trip gives the same atoms and the same name when  *)
(* the name, besides not being empty, is a single line with no white space *)
(* at either end.                                                          *)
(***************************************************************************)
PlainName(n) == trimmed(n) = n /\ \A k \in 1 .. Len(n) : n[k] # NL

C4_RoundTripPlainName ==
  (ReadDone /\ RoundTripInput /\ PlainName(encoded.name)) =>
    (ReadSucceeded /\ SameAtoms(mol.atoms, encoded.atoms) /\ mol.name = encoded.name)

C4_Witness ==
  /\ ReadDone /\ RoundTripInput /\ PlainName(encoded.name)
  /\ Len(encoded.atoms) >= 2
  /\ \E k \in 1 .. Len(encoded.atoms) :
       /\ mol.atoms[k].pos # encoded.atoms[k].pos
       /\ encoded.atoms[k].pos[1] < 0

(***************************************************************************)
(* C10 as stated: for a molecule of N atoms write gives exactly N + 2      *)
(* lines: the decimal atom count; the name as stored if it is not empty,   *)
(* else the default comment; one line per atom, in order, with the symbol  *)
(* and the position of the atom.  Further coordinate sets change nothing.  *)
(***************************************************************************)
OutLines == LinesOf(outData)

\* the line holds the symbol and the position of the atom
CarriesAtom(line, a) ==
  LET tokens == split(line, SP)
  IN  /\ Len(tokens) = 4
      /\ tokens[1] = symbol(a.num)
      /\ \A c \in 1 .. 3 :
           /\ IsNumberToken(tokens[c + 1])
           /\ \A v \in lexicalCastDouble(tokens[c + 1]) : Close(v, a.pos[c])

WrittenAsStated ==
  /\ Len(OutLines) = atomCount(encoded) + 2
  /\ outData[Len(outData)] = NL
  /\ IsCountLine(OutLines[1])
  /\ CountOfLine(OutLines[1]) = atomCount(encoded)
  /\ OutLines[2] = (IF encoded.name # <<>> THEN encoded.name ELSE DefaultComment)
  /\ \A k \in 1 .. atomCount(encoded) : CarriesAtom(OutLines[k + 2], encoded.atoms[k])
  /\ outData = XyzWrite([encoded EXCEPT !.coords = <<>>])

C10_WritesCountNameAtoms == pc = "written" => WrittenAsStated

(***************************************************************************)
(* C10 amended: the N + 2 lines are written as stated when the name holds  *)
(* no line break (the name is written as stored, line breaks included).    *)
(***************************************************************************)
C10_WritesSingleLineName ==
  (pc = "written" /\ \A k \in 1 .. Len(encoded.name) : encoded.name[k] # NL) =>
    WrittenAsStated

C10_Witness ==
  /\ pc = "written"
  /\ atomCount(encoded) >= 2
  /\ Len(encoded.coords) >= 2
  /\ encoded.coords[Len(encoded.coords)] # atomPositions3d(encoded)
  /\ encoded.name # <<>>
  /\ \A k \in 1 .. Len(encoded.name) : encoded.name[k] # NL

(***************************************************************************)
(* C11: once a frame has been stored, a lookahead line that is absent, is  *)
(* blank or otherwise no integer, or is an integer other than N ends the   *)
(* frame loop: read goes on to return success with the frames stored so    *)
(* far, reports no error and starts no other frame block.                  *)
(***************************************************************************)
\* the atom lines of a frame have been read and the frame is about to be stored
FrameComplete == pc = "frame" /\ i >= numAtoms

\* the stream holds a line for the next getline
LineDue == Good(stream) /\ stream.pos <= Len(inData)

\* the lookahead line is one that ends the frames
LookaheadEnds ==
  IF ~LineDue THEN TRUE
  ELSE IF ~IsIntegerLine(DueLine) THEN TRUE
  ELSE CountOfLine(trimmed(DueLine)) # numAtoms

C11_FrameLoopStops ==
  [][(FrameComplete /\ IsIntegerLine(FirstLine) /\ LookaheadEnds) =>
       (pc' = "finish" /\ errors' = errors /\ Len(mol'.coords) = coordSet + 1)]_vars

(***************************************************************************)
(* C12: read asks the molecule for bond perception exactly once in a call  *)
(* that returns success, and not before it returns: while the call runs    *)
(* and after a call that returned failure no perception has been asked.    *)
(***************************************************************************)
C12_PerceivedOncePerSuccess ==
  IF result = "true" THEN mol.perceived = molBefore.perceived + 1
  ELSE mol.perceived = molBefore.perceived

C12_Witness ==
  /\ ReadSucceeded
  /\ round = 1
  /\ Len(mol.coords) >= 3
  /\ mol.perceived = 1

(***************************************************************************)
(* C13: an atom line with at least 4 tokens separated by runs of white     *)
(* space of any kind, a valid element token and numbers as tokens 1-3 is   *)
(* accepted: read goes on to the next line and reports no error.           *)
(***************************************************************************)
ValidElementToken(t) ==
  IF IsAlpha(t[1]) THEN \E n \in KnownNumbers \ {0} : symbol(n) = t
  ELSE IsCountLine(t)

WellFormedAtomLine(line) ==
  /\ Len(WsTokens(line)) >= 4
  /\ ValidElementToken(WsTokens(line)[1])
  /\ \A k \in 2 .. 4 : IsNumberToken(WsTokens(line)[k])

C13_WhitespaceTokens ==
  [][(AtomLineDue /\ WellFormedAtomLine(DueLine)) =>
       (pc' = pc /\ i' = i + 1 /\ errors' = errors)]_vars

(***************************************************************************)
(* C14: an atom line whose first token is an unsigned integer k gives an   *)
(* atom with atomic number k: no other number is stored in its place.      *)
(***************************************************************************)
NumericElementLine(line) ==
  /\ Len(WsTokens(line)) >= 4
  /\ IsCountLine(WsTokens(line)[1])

C14_NumericTokenKept ==
  [][(pc = "atoms" /\ AtomLineDue /\ NumericElementLine(DueLine)
        /\ atomCount(mol') = atomCount(mol) + 1) =>
       mol'.atoms[atomCount(mol')].num = CountOfLine(WsTokens(DueLine)[1])]_vars

(***************************************************************************)
(* C15: every call of read returns.  Each step of a running read lowers a  *)
(* rank that cannot fall for ever: what is left of the stream, then the    *)
(* place of control, then the turns left of the loop.  So whatever the     *)
(* stream holds, and whether or not its last line is ended, the atom loop  *)
(* and the frame loop are left, and read returns success or failure.       *)
(***************************************************************************)
ReadRunning ==
  pc \in {"header", "name", "atoms", "animation", "frame", "finish"}

\* what a stream has left to give: its characters, then its eofbit and failbit
StreamLeft ==
  2 * (Len(inData) + 1 - stream.pos)
    + (IF stream.eof THEN 0 ELSE 1) + (IF stream.fail THEN 0 ELSE 1)

PlaceRank ==
  CASE pc = "header" -> 6
    [] pc = "name" -> 5
    [] pc = "atoms" -> 4
    [] pc = "animation" -> 3
    [] pc = "frame" -> 2
    [] pc = "finish" -> 1
    [] OTHER -> 0

Rank == <<StreamLeft, PlaceRank, numAtoms - i>>

\* the lexicographic order of ranks
LexLess(r, s) ==
  IF r[1] # s[1] THEN r[1] < s[1]
  ELSE IF r[2] # s[2] THEN r[2] < s[2]
  ELSE r[3] < s[3]

C15_ReadTerminates ==
  /\ [](ReadRunning => \A k \in 1 .. 3 : Rank[k] >= 0)
  /\ [](ReadDone => result \in {"true", "false"})
  /\ [][ReadRunning => LexLess(Rank', Rank)]_vars

\* read has returned after a frame loop that ran into the end of a stream whose
\* last line is not ended
C15_Witness ==
  /\ ReadDone
  /\ round = 1
  /\ coordSet >= 2
  /\ stream.eof
  /\ inData # <<>>
  /\ inData[Len(inData)] # NL

(***************************************************************************)
(* C16: when read needs an atom line, of the initial block or of a frame   *)
(* block, and the stream holds no further line, read fails and stores no   *)
(* atom and no frame position: the line read before is not parsed again.   *)
(***************************************************************************)
AtomLineMissing ==
  /\ pc \in {"atoms", "frame"}
  /\ i < numAtoms
  /\ ~LineDue

C16_NoLineParsedTwice ==
  [][AtomLineMissing =>
       (pc' = "done" /\ result' = "false" /\ mol' = mol
          /\ positions' = positions)]_vars

(***************************************************************************)
(* C17: while the process is locked, a call of queryReadFormats, readFile, *)
(* convert, queryForceFields or optimizeGeometry returns false and changes *)
(* nothing: no process is started, no connection is made or dropped, and   *)
(* the lock, the abort flag and the request in flight are as they were.    *)
(***************************************************************************)
C17_LockedCallsRejected ==
  [][(m_processLocked /\ nCalls' # nCalls) =>
       /\ lastCall'.ok = FALSE
       /\ UNCHANGED <<m_processLocked, m_aborted, onFinished, onError,
                      logReaders, abortKills, child, pending, accepted,
                      emitted, abortedReq>>]_vars

\* optimizeGeometry has been turned away while another request is in flight
C17_Witness ==
  /\ m_processLocked
  /\ child = "running"
  /\ lastCall = [kind |-> "optimizeGeometry", ok |-> FALSE]
  /\ onFinished # <<"optimizeGeometry">>
  /\ logReaders = 0

(***************************************************************************)
(* C18: once the process of a request has signalled finished or error, the *)
(* completion slot releases the lock, on the path taken after abort() as   *)
(* on the others: the process does not stay locked.                        *)
(***************************************************************************)
C18_LockReleased == (pending # <<>>) ~> ~m_processLocked

\* the slot of a request that was aborted in flight has returned
C18_Witness ==
  /\ Quiet
  /\ child = "notRunning"
  /\ accepted \in abortedReq
  /\ emitted[accepted] = 0
  /\ ~m_processLocked

(***************************************************************************)
(* C19: a request that was accepted has its result signal emitted once at  *)
(* most, never if abort() was called during its flight, and exactly once   *)
(* when it was not aborted and its process has ended and signalled.        *)
(***************************************************************************)
C19_OneResultPerRequest ==
  \A r \in 1 .. accepted :
    /\ emitted[r] <= 1
    /\ r \in abortedReq => emitted[r] = 0
    /\ (Quiet /\ child = "notRunning" /\ r \notin abortedReq) => emitted[r] = 1

(***************************************************************************)
(* C20: when a result signal is emitted the lock has been released, so a   *)
(* request made by a slot connected to the signal is accepted.             *)
(***************************************************************************)
C20_UnlockedAtEmit ==
  /\ [](hpc \in {"emit", "slot"} => ~m_processLocked)
  /\ [][(hpc = "slot" /\ nCalls' # nCalls) => lastCall'.ok]_vars

====
